---- MODULE Spec2Model ----
(***************************************************************************)
(* Model of cassandra_reaper_api.CassandraReaper: the authenticated        *)
(* session (login, token, Authorization header), the response check, the   *)
(* retry-once decorator around the HTTP verb helpers, and a handful of     *)
(* the facade operations built on them.                                    *)
(*                                                                         *)
(* One step of the model is one blocking transport call (requests'         *)
(* Session.get/post/...) together with the Python code that runs after it  *)
(* up to the next transport call or to the return/raise of the operation.  *)
(* The server's answer to each transport call is an input: a status code   *)
(* and a body, or a transport fault.                                       *)
(***************************************************************************)
EXTENDS Integers, Sequences, FiniteSets, TLC

\* ---------------------------------------------------------------- bounds

\* Operations (explicit login() or a request) started on one session.
MaxOps == 2

\* Callers of the session.  Spec runs caller 1 alone (the library is
\* synchronous and single-threaded); the callers are indexed so that an
\* unsynchronised second caller can be added without changing the actions.
Callers == {1, 2}

\* Status codes the server answers with in Spec: a 2xx, a 3xx, 401 and the
\* three codes of __check_req's tuple.
Statuses == {200, 304, 401, 403, 498, 499}

\* Every status code, for __check_req on its own.
AllStatuses == 100..599

\* Bodies the server returns on /jwt.
Tokens == {"", "tok-1", "tok-2"}

Passwords == {"pw-1", "pw-2"}

\* self.url and self.user: set once by __init__, never assigned again.
url == "http://reaper:8080/"

user == "admin"

\* ------------------------------------------------------- values and helpers

\* A transport call that raised instead of returning a response
\* (requests.exceptions.ConnectionError, Timeout, ...).
Fault == [url |-> "", status_code |-> 0, text |-> ""]

NoResponse == [url |-> "", status_code |-> -1, text |-> ""]

NoError == [type |-> "None", url |-> "", status_code |-> 0, text |-> ""]

NoBody == [kind |-> "none", fields |-> {}]

NoArgs == [func |-> "none", query |-> "", params |-> {}, body |-> NoBody, timeout |-> 0]

NoJwt == "<none>"

\* requests.compat.urljoin for a base that ends in "/" and a relative
\* reference without a leading slash: the reference is appended to the base.
urljoin(base, ref) == base \o ref

\* ok, had it meant "a 2xx status".
ok_2xx(req) == 200 <= req.status_code /\ req.status_code < 300

\* requests.Response.ok: raise_for_status() raises for 400 <= status < 600
\* and for nothing else, so a 1xx or 3xx response is ok.
ok(req) == ~(400 <= req.status_code /\ req.status_code < 600)

\* __check_req, had 401 been in its tuple of status codes.
check_req_401(req) ==
    IF ~ok(req)
      THEN IF req.status_code \in {401, 403, 498, 499}
             THEN [type |-> "AuthError", url |-> req.url,
                   status_code |-> req.status_code, text |-> req.text]
             ELSE [type |-> "HTTPError", url |-> req.url,
                   status_code |-> req.status_code, text |-> req.text]
      ELSE NoError

\* __check_req: the exception raised for a response, NoError when none is.
check_req(req) ==
    IF ~ok(req)
      THEN IF req.status_code \in {403, 498, 499}
             THEN [type |-> "AuthError", url |-> req.url,
                   status_code |-> req.status_code, text |-> req.text]
             ELSE [type |-> "HTTPError", url |-> req.url,
                   status_code |-> req.status_code, text |-> req.text]
      ELSE NoError

\* An exception raised by the transport itself.
TransportError == [type |-> "ConnectionError", url |-> "", status_code |-> 0, text |-> ""]

\* The decorator, had its clause been `except HTTPError`.
except_HTTPError(exc) == exc.type = "HTTPError"

\* The decorator, had its clause been `except Exception`.
except_Exception(exc) == exc # NoError

\* `except AuthError` of the decorator: the exceptions it catches.
except_AuthError(exc) == exc.type = "AuthError"

Response(u, s, t) == [url |-> u, status_code |-> s, text |-> t]

\* The repair and the schedule that delete_repair and delete_schedule
\* are called on.
Resources == {"repair_run/r2", "repair_schedule/s2"}

ResourceUrls == {urljoin(url, r) : r \in Resources}

\* Bodies the server may send for a repair or a schedule: a JSON object
\* with an owner, a JSON object without one, and a body that is not JSON.
Documents == {"{\"owner\": \"ops\"}", "{\"owner\": \"dev\"}", "{}", "body"}

\* req.json(): the parsed body, or the decoder's exception.
json(t) ==
    CASE t = "{\"owner\": \"ops\"}" -> [valid |-> TRUE, fields |-> {<<"owner", "ops">>}]
      [] t = "{\"owner\": \"dev\"}" -> [valid |-> TRUE, fields |-> {<<"owner", "dev">>}]
      [] t = "{}"                   -> [valid |-> TRUE, fields |-> {}]
      [] OTHER                      -> [valid |-> FALSE, fields |-> {}]

\* What the server may answer on URL u: any status of Statuses; the body
\* of a /jwt answer below 400 is any of Tokens, that of a 200 for a repair
\* or a schedule any of Documents, every other body is fixed.
Texts(u, s) ==
    IF u = urljoin(url, "jwt") /\ s < 400 THEN Tokens
    ELSE IF s = 200 /\ u \in ResourceUrls THEN Documents
    ELSE {"body"}

ServerAnswers(u) ==
    UNION { { Response(u, s, t) : t \in Texts(u, s) } : s \in Statuses }

\* ------------------------------------------------ the HTTP verb helpers

\* The transport call each helper makes (the body of __get, __delete,
\* __post, __put, __patch up to the response): the session's headers are
\* attached by requests.Session at the time of the call.
get(a, hdrs) ==
    [method |-> "GET", url |-> urljoin(url, a.query), params |-> a.params,
     body |-> NoBody, timeout |-> a.timeout, headers |-> hdrs]

delete(a, hdrs) ==
    [method |-> "DELETE", url |-> urljoin(url, a.query), params |-> a.params,
     body |-> NoBody, timeout |-> a.timeout, headers |-> hdrs]

post(a, hdrs) ==
    [method |-> "POST", url |-> urljoin(url, a.query), params |-> a.params,
     body |-> [kind |-> "form", fields |-> a.body.fields],
     timeout |-> a.timeout, headers |-> hdrs]

put(a, hdrs) ==
    [method |-> "PUT", url |-> urljoin(url, a.query), params |-> a.params,
     body |-> [kind |-> "form", fields |-> a.body.fields],
     timeout |-> a.timeout, headers |-> hdrs]

patch(a, hdrs) ==
    [method |-> "PATCH", url |-> urljoin(url, a.query), params |-> a.params,
     body |-> [kind |-> "json", fields |-> a.body.fields],
     timeout |-> a.timeout, headers |-> hdrs]

\* func(self, *args, **kwargs) of the decorator: the wrapped helper.
func(a, hdrs) ==
    CASE a.func = "get"    -> get(a, hdrs)
      [] a.func = "delete" -> delete(a, hdrs)
      [] a.func = "post"   -> post(a, hdrs)
      [] a.func = "put"    -> put(a, hdrs)
      [] a.func = "patch"  -> patch(a, hdrs)

\* The POST of login(), had it sent the password the session was
\* constructed with.
login_post_initial(pw, hdrs) ==
    [method |-> "POST", url |-> urljoin(url, "login"), params |-> {},
     body |-> [kind |-> "form",
               fields |-> {<<"username", user>>, <<"password", "pw-1">>,
                           <<"rememberMe", "False">>}],
     timeout |-> 0, headers |-> hdrs]

\* The two transport calls of login().
login_post(pw, hdrs) ==
    [method |-> "POST", url |-> urljoin(url, "login"), params |-> {},
     body |-> [kind |-> "form",
               fields |-> {<<"username", user>>, <<"password", pw>>,
                           <<"rememberMe", "False">>}],
     timeout |-> 0, headers |-> hdrs]

login_jwt(hdrs) ==
    [method |-> "GET", url |-> urljoin(url, "jwt"), params |-> {},
     body |-> NoBody, timeout |-> 0, headers |-> hdrs]

\* The header update, had it sent the bare token.
headers_update_raw(hdrs, tok) ==
    {h \in hdrs : h[1] # "Authorization"} \cup {<<"Authorization", tok>>}

\* The header update, had it been headers.setdefault(...): an Authorization
\* header already present is kept.
headers_setdefault(hdrs, tok) ==
    IF \E h \in hdrs : h[1] = "Authorization"
      THEN hdrs
      ELSE hdrs \cup {<<"Authorization", "Bearer " \o tok>>}

\* self.__s.headers.update({'Authorization': f"Bearer {self.token}"})
headers_update(hdrs, tok) ==
    {h \in hdrs : h[1] # "Authorization"} \cup {<<"Authorization", "Bearer " \o tok>>}

\* ----------------------------------------------------- facade operations

\* The helper call each facade operation makes, defaults filled in.
get_clusters ==
    [func |-> "get", query |-> "cluster", params |-> {}, body |-> NoBody, timeout |-> 10]

get_cluster_info ==
    [func |-> "get", query |-> "cluster/c1", params |-> {<<"limit", "200">>},
     body |-> NoBody, timeout |-> 30]

delete_cluster ==
    [func |-> "delete", query |-> "cluster/c1", params |-> {<<"force", "False">>},
     body |-> NoBody, timeout |-> 10]

resume_repair ==
    [func |-> "put", query |-> "repair_run/r1/state/RUNNING", params |-> {},
     body |-> [kind |-> "form", fields |-> {}], timeout |-> 10]

start_schedule ==
    [func |-> "post", query |-> "repair_schedule/start/s1", params |-> {},
     body |-> [kind |-> "form", fields |-> {}], timeout |-> 10]

update_schedule ==
    [func |-> "patch", query |-> "repair_schedule/s1", params |-> {},
     body |-> [kind |-> "json",
               fields |-> {<<"owner", "ops">>, <<"repair_parallelism", "PARALLEL">>,
                           <<"intensity", "0.9">>, <<"scheduled_days_between", "7">>,
                           <<"segment_count_per_node", "16">>,
                           <<"percent_unrepaired_threshold", "-1">>,
                           <<"adaptive", "True">>}],
     timeout |-> 10]

\* The two helper calls of delete_repair(id) and of delete_schedule(id):
\* the GET of the resource, then the DELETE with the owner it names.
get_repair ==
    [func |-> "get", query |-> "repair_run/r2", params |-> {}, body |-> NoBody,
     timeout |-> 10]

get_schedule ==
    [func |-> "get", query |-> "repair_schedule/s2", params |-> {}, body |-> NoBody,
     timeout |-> 10]

delete_repair(owner) ==
    [func |-> "delete", query |-> "repair_run/r2", params |-> {<<"owner", owner>>},
     body |-> NoBody, timeout |-> 10]

delete_schedule(owner) ==
    [func |-> "delete", query |-> "repair_schedule/s2", params |-> {<<"owner", owner>>},
     body |-> NoBody, timeout |-> 10]

Deletes == {"delete_repair", "delete_schedule"}

Requests ==
    {get_clusters, get_cluster_info, delete_cluster, resume_repair,
     start_schedule, update_schedule}

\* ------------------------------------------------------------------ state

VARIABLES
    session,    \* "new" before __init__, "ready" once it returned, "failed" if it raised
    password,   \* self.__password
    token,      \* self.token
    headers,    \* self.__s.headers, as a set of <<name, value>>
    issued,     \* body of /jwt in the most recent login() that succeeded, NoJwt if none
    fresh,      \* a login() has succeeded and no transport call was made since
    logins,     \* login() invocations on this session so far
    nops,       \* operations started on this session after __init__
    pc,         \* per caller: the transport call it is about to make, or idle/done/failed
    op,         \* per caller: the operation in progress
    args,       \* per caller: the arguments of the helper call in progress
    entry,      \* per caller: token and headers when the operation was called
    wire,       \* per caller: the transport calls of the operation in progress, in order
    nlogin,     \* per caller: login() invocations of the operation in progress
    result,     \* per caller: what the operation returned or raised
    facade,     \* per caller: the two-call facade operation in progress
    probe,      \* a response handed to __check_req on its own
    verdict     \* what __check_req did with probe

vars == <<session, password, token, headers, issued, fresh, logins, nops,
          pc, op, args, entry, wire, nlogin, result, facade, probe, verdict>>

NoResult == [ret |-> NoResponse, exc |-> NoError]

NoEntry == [token |-> "", headers |-> {}]

Unchecked == [type |-> "Unchecked", url |-> "", status_code |-> 0, text |-> ""]

\* No two-call facade operation in progress.
NoFacade == [name |-> "none", stage |-> "none", got |-> <<>>]

\* Before __init__: no session object yet, no caller in an operation.
InitSession ==
    /\ session = "new"
    /\ password = "pw-1"
    /\ token = ""
    /\ headers = {}
    /\ issued = NoJwt
    /\ fresh = FALSE
    /\ logins = 0
    /\ nops = 0
    /\ pc = [c \in Callers |-> "idle"]
    /\ op = [c \in Callers |-> "none"]
    /\ args = [c \in Callers |-> NoArgs]
    /\ entry = [c \in Callers |-> NoEntry]
    /\ wire = [c \in Callers |-> <<>>]
    /\ nlogin = [c \in Callers |-> 0]
    /\ result = [c \in Callers |-> NoResult]
    /\ facade = [c \in Callers |-> NoFacade]

Init ==
    /\ InitSession
    /\ probe = NoResponse
    /\ verdict = Unchecked

\* One transport call: the request sent, the response received (Fault when
\* the transport raised), and, at the time of the call, the most recently
\* issued token and whether this is the first call since it was issued.
Exchange(rq, rs) == [req |-> rq, resp |-> rs, issued |-> issued, fresh |-> fresh]

\* The answers of one transport call: a response, or a fault.
Outcomes(u) == ServerAnswers(u) \cup {Fault}

\* The exception a transport call ends in: the transport's own, or
\* __check_req's, or none.
raised(rs) == IF rs = Fault THEN TransportError ELSE check_req(rs)

\* wrapper(), had it retried in a loop: every AuthError leads to login().
wrapper_loop(attempt, exc) ==
    IF exc = NoError THEN "done"
    ELSE IF except_AuthError(exc) THEN "login_post"
    ELSE "failed"

\* wrapper(), had it no try/except at all.
wrapper_noretry(attempt, exc) ==
    IF exc = NoError THEN "done" ELSE "failed"

\* wrapper(): where control goes after a call of func ended in exc.  The
\* first call (line 50) is inside the try: an AuthError is caught (line 51)
\* and login() is called (line 52).  The second call (line 53) is inside
\* the except clause: nothing it raises is caught.
wrapper(attempt, exc) ==
    IF exc = NoError THEN "done"
    ELSE IF attempt = "func1" /\ except_AuthError(exc) THEN "login_post"
    ELSE "failed"

\* login() in wrapper(), had line 52 been wrapped in a try that swallows
\* what login() raises: the request is re-sent all the same.
login_then_swallow(stage, o, exc) ==
    IF exc # NoError /\ o # "request" THEN "failed"
    ELSE IF stage = "login_post" /\ exc = NoError THEN "login_jwt"
    ELSE IF o = "request" THEN "func2"
    ELSE "done"

\* login(), had line 33 (the check of the /login response) been missing:
\* /jwt is fetched whatever /login answered.
login_then_nocheck(stage, o, exc) ==
    IF stage = "login_post" THEN "login_jwt"
    ELSE IF exc # NoError THEN "failed"
    ELSE IF o = "request" THEN "func2"
    ELSE "done"

\* login() and its call sites: where control goes after one of its two
\* transport calls ended in exc.  An exception leaves login() (lines 33,
\* 36) and, no handler being around its call in __init__ (line 25) or in
\* wrapper() (line 52), the operation.  After /login comes /jwt; after
\* /jwt login() returns: to line 53 of wrapper(), or to the caller.
login_then(stage, o, exc) ==
    IF exc # NoError THEN "failed"
    ELSE IF stage = "login_post" THEN "login_jwt"
    ELSE IF o = "request" THEN "func2"
    ELSE "done"

\* ---------------------------------------------------------------- actions

\* The arguments of __init__ that matter here: the login flag.
init_args(lg) ==
    [NoArgs EXCEPT !.func = "__init__",
                   !.params = {<<"login", IF lg THEN "True" ELSE "False">>}]

\* __init__, had it lacked lines 24-25: it never calls login().
Construct_nologin(c, pw, lg) ==
    /\ session = "new"
    /\ pc[c] = "idle"
    /\ op[c] = "none"
    /\ password' = pw
    /\ token' = ""
    /\ headers' = {}
    /\ op' = [op EXCEPT ![c] = "init"]
    /\ args' = [args EXCEPT ![c] = init_args(lg)]
    /\ entry' = [entry EXCEPT ![c] = NoEntry]
    /\ session' = "ready"
    /\ pc' = [pc EXCEPT ![c] = "done"]
    /\ nlogin' = [nlogin EXCEPT ![c] = 0]
    /\ wire' = [wire EXCEPT ![c] = <<>>]
    /\ result' = [result EXCEPT ![c] = NoResult]
    /\ UNCHANGED <<issued, fresh, logins, nops, facade, probe, verdict>>

\* __init__(url, user, password, verify_ssl, login): lines 18-23, then
\* login() when the login argument is true.
Construct(c, pw, lg) ==
    /\ session = "new"
    /\ pc[c] = "idle"
    /\ op[c] = "none"
    /\ password' = pw
    /\ token' = ""
    /\ headers' = {}
    /\ op' = [op EXCEPT ![c] = "init"]
    /\ args' = [args EXCEPT ![c] = init_args(lg)]
    /\ entry' = [entry EXCEPT ![c] = NoEntry]
    /\ IF lg
         THEN /\ session' = "new"
              /\ logins' = logins + 1
              /\ pc' = [pc EXCEPT ![c] = "login_post"]
              /\ nlogin' = [nlogin EXCEPT ![c] = 1]
         ELSE /\ session' = "ready"
              /\ logins' = logins
              /\ pc' = [pc EXCEPT ![c] = "done"]
              /\ nlogin' = [nlogin EXCEPT ![c] = 0]
    /\ wire' = [wire EXCEPT ![c] = <<>>]
    /\ result' = [result EXCEPT ![c] = NoResult]
    /\ UNCHANGED <<issued, fresh, nops, facade, probe, verdict>>

\* A caller invokes login() itself.
CallLogin(c) ==
    /\ session = "ready"
    /\ pc[c] = "idle"
    /\ nops < MaxOps
    /\ nops' = nops + 1
    /\ logins' = logins + 1
    /\ pc' = [pc EXCEPT ![c] = "login_post"]
    /\ op' = [op EXCEPT ![c] = "login"]
    /\ entry' = [entry EXCEPT ![c] = [token |-> token, headers |-> headers]]
    /\ nlogin' = [nlogin EXCEPT ![c] = 1]
    /\ wire' = [wire EXCEPT ![c] = <<>>]
    /\ result' = [result EXCEPT ![c] = NoResult]
    /\ UNCHANGED <<session, password, token, headers, issued, fresh, args,
                   facade, probe, verdict>>

\* A caller invokes a facade operation, which calls one decorated helper:
\* wrapper() is entered and is about to call func the first time.
CallRequest(c, a) ==
    /\ session = "ready"
    /\ pc[c] = "idle"
    /\ nops < MaxOps
    /\ nops' = nops + 1
    /\ pc' = [pc EXCEPT ![c] = "func1"]
    /\ op' = [op EXCEPT ![c] = "request"]
    /\ args' = [args EXCEPT ![c] = a]
    /\ entry' = [entry EXCEPT ![c] = [token |-> token, headers |-> headers]]
    /\ nlogin' = [nlogin EXCEPT ![c] = 0]
    /\ wire' = [wire EXCEPT ![c] = <<>>]
    /\ result' = [result EXCEPT ![c] = NoResult]
    /\ UNCHANGED <<session, password, token, headers, issued, fresh, logins,
                   facade, probe, verdict>>

\* update_password(), had it dropped the token obtained with the old
\* password.
UpdatePassword_invalidate(c, pw) ==
    /\ session = "ready"
    /\ pc[c] = "idle"
    /\ pw # password
    /\ password' = pw
    /\ token' = ""
    /\ headers' = {h \in headers : h[1] # "Authorization"}
    /\ UNCHANGED <<session, issued, fresh, logins, nops,
                   pc, op, args, entry, wire, nlogin, result, facade, probe, verdict>>

\* update_password(new_password), lines 97-98: one assignment.  The
\* caller passes a password other than the stored one.
UpdatePassword(c, pw) ==
    /\ session = "ready"
    /\ pc[c] = "idle"
    /\ pw # password
    /\ password' = pw
    /\ UNCHANGED <<session, token, headers, issued, fresh, logins, nops,
                   pc, op, args, entry, wire, nlogin, result, facade, probe, verdict>>

\* One call of func from wrapper(): the helper's transport call, made with
\* the session's headers, then __check_req, then wrapper()'s handling of
\* the outcome.
Func(c, attempt, rs) ==
    /\ pc[c] = attempt
    /\ LET rq  == func(args[c], headers)
           exc == raised(rs)
           to  == wrapper(attempt, exc)
       IN  /\ rs \in Outcomes(rq.url)
           /\ wire' = [wire EXCEPT ![c] = Append(@, Exchange(rq, rs))]
           /\ pc' = [pc EXCEPT ![c] = to]
           /\ result' = [result EXCEPT ![c] =
                           IF to = "done" THEN [ret |-> rs, exc |-> NoError]
                           ELSE IF to = "failed" THEN [ret |-> NoResponse, exc |-> exc]
                           ELSE @]
           /\ nlogin' = [nlogin EXCEPT ![c] = IF to = "login_post" THEN @ + 1 ELSE @]
           /\ logins' = IF to = "login_post" THEN logins + 1 ELSE logins
    /\ fresh' = FALSE
    /\ UNCHANGED <<session, password, token, headers, issued, nops, op, args,
                   entry, facade, probe, verdict>>

\* wrapper(), line 50: the first call of func, inside the try.
FuncFirst(c, rs) == Func(c, "func1", rs)

\* wrapper(), line 53: the second call of func, inside the except clause.
FuncSecond(c, rs) == Func(c, "func2", rs)

\* login(), lines 29-33: the POST to /login with the stored password, and
\* its check.
LoginPost(c, rs) ==
    /\ pc[c] = "login_post"
    /\ LET rq  == login_post(password, headers)
           exc == raised(rs)
           to  == login_then("login_post", op[c], exc)
       IN  /\ rs \in Outcomes(rq.url)
           /\ wire' = [wire EXCEPT ![c] = Append(@, Exchange(rq, rs))]
           /\ pc' = [pc EXCEPT ![c] = to]
           /\ result' = [result EXCEPT ![c] =
                           IF to = "failed" THEN [ret |-> NoResponse, exc |-> exc] ELSE @]
           /\ session' = IF op[c] = "init" /\ to = "failed" THEN "failed" ELSE session
    /\ fresh' = FALSE
    /\ UNCHANGED <<password, token, headers, issued, logins, nops, op, args,
                   entry, nlogin, facade, probe, verdict>>

\* login(), had lines 37-38 come before the check of line 36: the body of
\* any /jwt response becomes the token.
LoginJwt_early(c, rs) ==
    /\ pc[c] = "login_jwt"
    /\ LET rq  == login_jwt(headers)
           exc == raised(rs)
           to  == login_then("login_jwt", op[c], exc)
       IN  /\ rs \in Outcomes(rq.url)
           /\ wire' = [wire EXCEPT ![c] = Append(@, Exchange(rq, rs))]
           /\ pc' = [pc EXCEPT ![c] = to]
           /\ result' = [result EXCEPT ![c] =
                           IF to = "failed" THEN [ret |-> NoResponse, exc |-> exc] ELSE @]
           /\ IF rs # Fault
                THEN /\ token' = rs.text
                     /\ headers' = headers_update(headers, rs.text)
                     /\ issued' = rs.text
                     /\ fresh' = TRUE
                ELSE /\ UNCHANGED <<token, headers, issued>>
                     /\ fresh' = FALSE
           /\ session' = IF op[c] # "init" THEN session
                         ELSE IF to = "failed" THEN "failed"
                         ELSE IF to = "done" THEN "ready"
                         ELSE session
    /\ UNCHANGED <<password, logins, nops, op, args, entry, nlogin, facade, probe, verdict>>

\* login(), lines 34-38: the GET of /jwt, its check, and on success the
\* new token and Authorization header; then back to where login() was
\* called from.
LoginJwt(c, rs) ==
    /\ pc[c] = "login_jwt"
    /\ LET rq  == login_jwt(headers)
           exc == raised(rs)
           to  == login_then("login_jwt", op[c], exc)
       IN  /\ rs \in Outcomes(rq.url)
           /\ wire' = [wire EXCEPT ![c] = Append(@, Exchange(rq, rs))]
           /\ pc' = [pc EXCEPT ![c] = to]
           /\ result' = [result EXCEPT ![c] =
                           IF to = "failed" THEN [ret |-> NoResponse, exc |-> exc] ELSE @]
           /\ IF exc = NoError
                THEN /\ token' = rs.text
                     /\ headers' = headers_update(headers, rs.text)
                     /\ issued' = rs.text
                     /\ fresh' = TRUE
                ELSE /\ UNCHANGED <<token, headers, issued>>
                     /\ fresh' = FALSE
           /\ session' = IF op[c] # "init" THEN session
                         ELSE IF to = "failed" THEN "failed"
                         ELSE IF to = "done" THEN "ready"
                         ELSE session
    /\ UNCHANGED <<password, logins, nops, op, args, entry, nlogin, facade, probe, verdict>>

\* delete_repair / delete_schedule, had they sent the DELETE at once,
\* with an owner of their own.
CallDelete_direct(c, k) ==
    /\ session = "ready"
    /\ pc[c] = "idle"
    /\ nops < MaxOps
    /\ nops' = nops + 1
    /\ pc' = [pc EXCEPT ![c] = "func1"]
    /\ op' = [op EXCEPT ![c] = "request"]
    /\ args' = [args EXCEPT ![c] =
                  IF k = "delete_repair" THEN delete_repair("ops") ELSE delete_schedule("ops")]
    /\ entry' = [entry EXCEPT ![c] = [token |-> token, headers |-> headers]]
    /\ nlogin' = [nlogin EXCEPT ![c] = 0]
    /\ wire' = [wire EXCEPT ![c] = <<>>]
    /\ result' = [result EXCEPT ![c] = NoResult]
    /\ facade' = [facade EXCEPT ![c] = [name |-> k, stage |-> "delete", got |-> <<>>]]
    /\ UNCHANGED <<session, password, token, headers, issued, fresh, logins,
                   probe, verdict>>

\* A caller invokes delete_repair(id) or delete_schedule(id): lines 156 and
\* 263, get_repair(id) / get_schedule(id), whose __get enters wrapper().
CallDelete(c, k) ==
    /\ session = "ready"
    /\ pc[c] = "idle"
    /\ nops < MaxOps
    /\ nops' = nops + 1
    /\ pc' = [pc EXCEPT ![c] = "func1"]
    /\ op' = [op EXCEPT ![c] = "request"]
    /\ args' = [args EXCEPT ![c] =
                  IF k = "delete_repair" THEN get_repair ELSE get_schedule]
    /\ entry' = [entry EXCEPT ![c] = [token |-> token, headers |-> headers]]
    /\ nlogin' = [nlogin EXCEPT ![c] = 0]
    /\ wire' = [wire EXCEPT ![c] = <<>>]
    /\ result' = [result EXCEPT ![c] = NoResult]
    /\ facade' = [facade EXCEPT ![c] = [name |-> k, stage |-> "get", got |-> <<>>]]
    /\ UNCHANGED <<session, password, token, headers, issued, fresh, logins,
                   probe, verdict>>

\* What req.json() or the ['owner'] lookup raises.
DecodeError == [type |-> "JSONDecodeError", url |-> "", status_code |-> 0, text |-> ""]

KeyError == [type |-> "KeyError", url |-> "", status_code |-> 0, text |-> ""]

\* The owner fields of a parsed document.
Owners(doc) == {f[2] : f \in {g \in doc.fields : g[1] = "owner"}}

\* delete_repair / delete_schedule after __get returned: req.json() (lines
\* 134, 275), the owner looked up (lines 157, 264) and __delete called
\* with it (lines 158, 265), which enters wrapper() anew.  A body that is
\* not JSON, or has no owner, raises and ends the operation.
DeleteThen(c) ==
    /\ facade[c].stage = "get"
    /\ pc[c] = "done"
    /\ LET doc == json(result[c].ret.text)
       IN  IF doc.valid /\ Owners(doc) # {}
             THEN /\ pc' = [pc EXCEPT ![c] = "func1"]
                  /\ args' = [args EXCEPT ![c] =
                                LET o == CHOOSE x \in Owners(doc) : TRUE
                                IN  IF facade[c].name = "delete_repair"
                                      THEN delete_repair(o) ELSE delete_schedule(o)]
                  /\ entry' = [entry EXCEPT ![c] = [token |-> token, headers |-> headers]]
                  /\ nlogin' = [nlogin EXCEPT ![c] = 0]
                  /\ wire' = [wire EXCEPT ![c] = <<>>]
                  /\ result' = [result EXCEPT ![c] = NoResult]
                  /\ facade' = [facade EXCEPT ![c].stage = "delete", ![c].got = wire[c]]
             ELSE /\ pc' = [pc EXCEPT ![c] = "failed"]
                  /\ result' = [result EXCEPT ![c] =
                                  [ret |-> NoResponse,
                                   exc |-> IF doc.valid THEN KeyError ELSE DecodeError]]
                  /\ UNCHANGED <<args, entry, nlogin, wire, facade>>
    /\ UNCHANGED <<session, password, token, headers, issued, fresh, logins, nops,
                   op, probe, verdict>>

\* The operation has returned or raised; the caller goes on.  A facade
\* operation whose first helper call returned has not returned itself.
Return(c) ==
    /\ pc[c] \in {"done", "failed"}
    /\ ~(facade[c].stage = "get" /\ pc[c] = "done")
    /\ facade' = [facade EXCEPT ![c] = NoFacade]
    /\ pc' = [pc EXCEPT ![c] = "idle"]
    /\ op' = [op EXCEPT ![c] = "none"]
    /\ args' = [args EXCEPT ![c] = NoArgs]
    /\ entry' = [entry EXCEPT ![c] = NoEntry]
    /\ wire' = [wire EXCEPT ![c] = <<>>]
    /\ nlogin' = [nlogin EXCEPT ![c] = 0]
    /\ result' = [result EXCEPT ![c] = NoResult]
    /\ UNCHANGED <<session, password, token, headers, issued, fresh, logins, nops,
                   probe, verdict>>

LoginUrls == {urljoin(url, "login"), urljoin(url, "jwt")}

AllAnswers ==
    UNION { Outcomes(u) : u \in LoginUrls \cup {urljoin(url, a.query) : a \in Requests} }

\* The transport calls of caller c: each returns or raises.
Transport(c) ==
    \/ \E rs \in AllAnswers : FuncFirst(c, rs)
    \/ \E rs \in AllAnswers : FuncSecond(c, rs)
    \/ \E rs \in AllAnswers : LoginPost(c, rs)
    \/ \E rs \in AllAnswers : LoginJwt(c, rs)

\* The session is constructed with the first password; the second is one
\* that update_password() sets later.
Step(c) ==
    \/ \E lg \in BOOLEAN : Construct(c, "pw-1", lg)
    \/ CallLogin(c)
    \/ \E a \in Requests : CallRequest(c, a)
    \/ \E pw \in Passwords : UpdatePassword(c, pw)
    \/ Transport(c)
    \/ Return(c)

Next == Step(1)

Spec == Init /\ [][Next]_vars

\* Every transport call returns or raises: a call in progress is not left
\* waiting forever.
FairSpec == Spec /\ WF_vars(Transport(1))

\* A smaller choice of answers: success, an HTTP error, an expired
\* token, a fault; a /jwt body that is a token.
FewStatuses == {200, 401, 403}

FewAnswers ==
    {rs \in AllAnswers \cup UNION { Outcomes(u) : u \in ResourceUrls } :
        rs = Fault \/ (rs.status_code \in FewStatuses /\ rs.text # "")}

\* The transport calls of caller c, answered from FewAnswers.
TransportFew(c) ==
    \/ \E rs \in FewAnswers : FuncFirst(c, rs)
    \/ \E rs \in FewAnswers : FuncSecond(c, rs)
    \/ \E rs \in FewAnswers : LoginPost(c, rs)
    \/ \E rs \in FewAnswers : LoginJwt(c, rs)

\* A session used for delete_repair and delete_schedule.
StepDelete(c) ==
    \/ \E lg \in BOOLEAN : Construct(c, "pw-1", lg)
    \/ \E k \in Deletes : CallDelete(c, k)
    \/ DeleteThen(c)
    \/ TransportFew(c)
    \/ Return(c)

NextDelete == StepDelete(1)

SpecDelete == Init /\ [][NextDelete]_vars

\* Two callers use one session without synchronisation: their request
\* calls interleave at their transport calls.  Caller 1 constructs the
\* session.
\* session; each caller has a request of its own.
ConcRequest(c) == IF c = 1 THEN get_clusters ELSE delete_cluster

NextConc ==
    \/ \E lg \in BOOLEAN : Construct(1, "pw-1", lg)
    \/ \E c \in Callers : CallRequest(c, ConcRequest(c))
    \/ \E c \in Callers : TransportFew(c)
    \/ \E c \in Callers : Return(c)

SpecConc == Init /\ [][NextConc]_vars

\* __check_req on its own, on a response of any status code.
InitCheck ==
    /\ InitSession
    /\ probe \in { Response(urljoin(url, "cluster"), s, "body") : s \in AllStatuses }
    /\ verdict = Unchecked

\* self.__check_req(req)
CheckReq ==
    /\ verdict = Unchecked
    /\ probe # NoResponse
    /\ verdict' = check_req(probe)
    /\ UNCHANGED <<session, password, token, headers, issued, fresh, logins, nops,
                   pc, op, args, entry, wire, nlogin, result, facade, probe>>

SpecCheck == InitCheck /\ [][CheckReq]_vars

\* ------------------------------------------------ vocabulary of the claims

\* The three classes of a response, by status code, as the specification
\* words them.
Is2xx(rs) == 200 <= rs.status_code /\ rs.status_code <= 299

IsAuthExpired(rs) == rs.status_code \in {403, 498, 499}

IsLoginCall(e) == e.req.url \in LoginUrls

\* The sends of the operation's own request, in order.
FuncCalls(c) == SelectSeq(wire[c], LAMBDA e : ~IsLoginCall(e))

\* The POSTs to /login and the GETs of /jwt of the operation, in order.
LoginPosts(c) == SelectSeq(wire[c], LAMBDA e : e.req.url = urljoin(url, "login"))

JwtGets(c) == SelectSeq(wire[c], LAMBDA e : e.req.url = urljoin(url, "jwt"))

Ended(c) == pc[c] \in {"done", "failed"}

Last(q) == q[Len(q)]

\* ----------------------------------------------------------------- claims

\* C1: a request whose first response is AuthExpired and whose every later
\* transport call is answered 2xx (the /login POST, the /jwt GET, the
\* resend) ends by returning the resend's response, after exactly one
\* login() and exactly two sends.
C1_RetryOnceSuccess ==
    \A c \in Callers :
        ( /\ op[c] = "request"
          /\ Ended(c)
          /\ Len(wire[c]) >= 1
          /\ IsAuthExpired(wire[c][1].resp)
          /\ \A i \in 2..Len(wire[c]) : Is2xx(wire[c][i].resp) )
        => /\ pc[c] = "done"
           /\ Len(wire[c]) = 4
           /\ ~IsLoginCall(wire[c][4])
           /\ result[c] = [ret |-> wire[c][4].resp, exc |-> NoError]
           /\ nlogin[c] = 1
           /\ Len(LoginPosts(c)) = 1
           /\ Len(FuncCalls(c)) = 2

C1_Witness ==
    /\ op[1] = "request"
    /\ pc[1] = "done"
    /\ Len(wire[1]) = 4
    /\ IsAuthExpired(wire[1][1].resp)
    /\ result[1].ret = wire[1][4].resp
    /\ nlogin[1] = 1

\* C2: a request whose first response is AuthExpired and whose resend is
\* answered AuthExpired again has raised AuthError (that of the resend),
\* after exactly one login() and exactly two sends.
C2_NoRetryLoop ==
    \A c \in Callers :
        ( /\ op[c] = "request"
          /\ Len(FuncCalls(c)) >= 2
          /\ IsAuthExpired(FuncCalls(c)[1].resp)
          /\ IsAuthExpired(FuncCalls(c)[2].resp) )
        => /\ pc[c] = "failed"
           /\ result[c].exc.type = "AuthError"
           /\ result[c].exc.status_code = FuncCalls(c)[2].resp.status_code
           /\ result[c].ret = NoResponse
           /\ nlogin[c] = 1
           /\ Len(LoginPosts(c)) = 1
           /\ Len(FuncCalls(c)) = 2
           /\ ~IsLoginCall(Last(wire[c]))

C2_Witness ==
    /\ op[1] = "request"
    /\ pc[1] = "failed"
    /\ Len(FuncCalls(1)) = 2
    /\ IsAuthExpired(FuncCalls(1)[1].resp)
    /\ IsAuthExpired(FuncCalls(1)[2].resp)
    /\ result[1].exc.type = "AuthError"
    /\ nlogin[1] = 1

\* The bounds of C3: a request sends its own request at most twice, invokes
\* login() at most once (one POST to /login, one GET of /jwt), and is Done
\* with a response and no exception or Failed with an exception and no
\* response.
C3_Bounded ==
    \A c \in Callers :
        op[c] = "request" =>
            /\ Len(FuncCalls(c)) <= 2
            /\ nlogin[c] <= 1
            /\ Len(LoginPosts(c)) <= 1
            /\ Len(JwtGets(c)) <= 1
            /\ pc[c] \in {"func1", "login_post", "login_jwt", "func2", "done", "failed"}
            /\ pc[c] = "done" => result[c].exc = NoError /\ result[c].ret # NoResponse
            /\ pc[c] = "failed" => result[c].exc # NoError /\ result[c].ret = NoResponse

\* C3: the bounds above hold always, and a request that caller 1 (the
\* caller that runs in Spec) has started ends in Done or Failed.
C3_BoundedCall ==
    /\ []C3_Bounded
    /\ (op[1] = "request" /\ pc[1] = "func1") ~> Ended(1)

C3_Witness ==
    /\ op[1] = "request"
    /\ pc[1] = "failed"
    /\ Len(FuncCalls(1)) = 2
    /\ nlogin[1] = 1
    /\ Len(wire[1]) = 4

\* C4 as stated: exactly one class for every status code, Ok exactly for
\* 200..299, AuthExpired exactly for 403, 498 and 499, HttpError for every
\* other status code.
C4_Partition2xx ==
    verdict # Unchecked =>
        /\ verdict = NoError <=> Is2xx(probe)
        /\ verdict.type = "AuthError" <=> IsAuthExpired(probe)
        /\ verdict.type = "HTTPError" <=> ~Is2xx(probe) /\ ~IsAuthExpired(probe)

\* C4, amended: exactly one class for every status code in 100..599, Ok
\* exactly for 100..399, AuthExpired exactly for 403, 498 and 499,
\* HttpError exactly for the other codes of 400..599 (401 among them), the
\* exception carrying the response's URL, status code and text.
C4_Partition ==
    verdict # Unchecked =>
        /\ verdict.type \in {"None", "AuthError", "HTTPError"}
        /\ verdict = NoError <=> probe.status_code \in 100..399
        /\ verdict.type = "AuthError" <=> IsAuthExpired(probe)
        /\ verdict.type = "HTTPError" <=>
               probe.status_code \in 400..599 /\ ~IsAuthExpired(probe)
        /\ verdict # NoError =>
               /\ verdict.url = probe.url
               /\ verdict.status_code = probe.status_code
               /\ verdict.text = probe.text

C4_Witness ==
    /\ probe.status_code = 401
    /\ verdict.type = "HTTPError"

\* The Authorization headers among hdrs.
Authorization(hdrs) == {h \in hdrs : h[1] = "Authorization"}

Bearer(tok) == {<<"Authorization", "Bearer " \o tok>>}

\* C5 as stated: a request whose first response has a non-2xx status
\* outside 403, 498, 499 has raised HTTPError after that one send, with no
\* login() and with the token and the headers as they were at the call.
C5_HttpErrorNotRetried2xx ==
    \A c \in Callers :
        ( /\ op[c] = "request"
          /\ Len(wire[c]) >= 1
          /\ wire[c][1].resp # Fault
          /\ ~Is2xx(wire[c][1].resp)
          /\ ~IsAuthExpired(wire[c][1].resp) )
        => /\ pc[c] = "failed"
           /\ result[c].exc.type = "HTTPError"
           /\ Len(wire[c]) = 1
           /\ nlogin[c] = 0
           /\ token = entry[c].token
           /\ headers = entry[c].headers

\* C5, amended: a request whose first response has a status in 400..599
\* outside 403, 498, 499 (401 among them) has raised HTTPError, carrying
\* that response's URL, status and text, after that one send, with no
\* login() and with the token and the headers as they were at the call.
C5_HttpErrorNotRetried ==
    \A c \in Callers :
        ( /\ op[c] = "request"
          /\ Len(wire[c]) >= 1
          /\ wire[c][1].resp.status_code \in 400..599
          /\ ~IsAuthExpired(wire[c][1].resp) )
        => /\ pc[c] = "failed"
           /\ result[c].ret = NoResponse
           /\ result[c].exc.type = "HTTPError"
           /\ result[c].exc.url = wire[c][1].resp.url
           /\ result[c].exc.status_code = wire[c][1].resp.status_code
           /\ result[c].exc.text = wire[c][1].resp.text
           /\ Len(wire[c]) = 1
           /\ nlogin[c] = 0
           /\ token = entry[c].token
           /\ headers = entry[c].headers

C5_Witness ==
    /\ op[1] = "request"
    /\ pc[1] = "failed"
    /\ Len(wire[1]) = 1
    /\ wire[1][1].resp.status_code = 401
    /\ result[1].exc.type = "HTTPError"
    /\ nlogin[1] = 0
    /\ token = "tok-1"

\* C6: in a request, a transport call of the embedded login() that ends in
\* an exception (whatever its class, AuthError and transport faults
\* included) is the last transport call of the request: the request has
\* raised that exception, was sent once and login() was invoked once.
C6_LoginFailureTerminal ==
    \A c \in Callers :
        op[c] = "request" =>
            \A i \in 1..Len(wire[c]) :
                ( /\ IsLoginCall(wire[c][i])
                  /\ (wire[c][i].resp = Fault \/ wire[c][i].resp.status_code >= 400) )
                => /\ i = Len(wire[c])
                   /\ pc[c] = "failed"
                   /\ result[c].ret = NoResponse
                   /\ result[c].exc = raised(wire[c][i].resp)
                   /\ result[c].exc # NoError
                   /\ Len(FuncCalls(c)) = 1
                   /\ nlogin[c] = 1
                   /\ Len(LoginPosts(c)) = 1

C6_Witness ==
    /\ op[1] = "request"
    /\ pc[1] = "failed"
    /\ Len(wire[1]) = 3
    /\ IsLoginCall(wire[1][3])
    /\ IsAuthExpired(wire[1][3].resp)
    /\ result[1].exc.type = "AuthError"
    /\ nlogin[1] = 1

\* C7 as stated, for requests: a request that has raised AuthError has
\* logged in afresh and re-sent the request.
C7_AuthErrorAfterResend ==
    \A c \in Callers :
        ( /\ op[c] = "request"
          /\ pc[c] = "failed"
          /\ result[c].exc.type = "AuthError" )
        => /\ Len(FuncCalls(c)) = 2
           /\ Len(JwtGets(c)) = 1
           /\ raised(JwtGets(c)[1].resp) = NoError

\* C7, amended: an operation that has raised AuthError raised it for its
\* last transport call, which was answered 403, 498 or 499.  In a request
\* login() was then invoked exactly once and that last call is not the
\* first send: it is the resend, made after a login() that succeeded, or
\* it is a call of the embedded login() itself, the request then having
\* been sent once.  In login() called directly or from __init__ it is the
\* POST to /login or the GET of /jwt.
C7_AuthErrorOrigin ==
    \A c \in Callers :
        ( /\ pc[c] = "failed"
          /\ result[c].exc.type = "AuthError" )
        => /\ Len(wire[c]) >= 1
           /\ IsAuthExpired(Last(wire[c]).resp)
           /\ result[c].exc.status_code = Last(wire[c]).resp.status_code
           /\ result[c].exc.url = Last(wire[c]).req.url
           /\ op[c] = "request" =>
                 /\ nlogin[c] = 1
                 /\ Len(wire[c]) >= 2
                 /\ IsAuthExpired(wire[c][1].resp)
                 /\ \/ /\ ~IsLoginCall(Last(wire[c]))
                       /\ Len(FuncCalls(c)) = 2
                       /\ Len(JwtGets(c)) = 1
                       /\ raised(JwtGets(c)[1].resp) = NoError
                    \/ /\ IsLoginCall(Last(wire[c]))
                       /\ Len(FuncCalls(c)) = 1
           /\ op[c] # "request" => IsLoginCall(Last(wire[c]))

C7_Witness ==
    /\ op[1] = "request"
    /\ pc[1] = "failed"
    /\ result[1].exc.type = "AuthError"
    /\ Len(FuncCalls(1)) = 1
    /\ Len(wire[1]) = 2
    /\ IsLoginCall(wire[1][2])

\* C8: a transport call made while no login() has succeeded on the session
\* carries no Authorization header; the first transport call made after a
\* login() that succeeded with /jwt body t carries Authorization: Bearer t
\* and no other Authorization header.
C8_TokenAttach ==
    \A c \in Callers :
        \A i \in 1..Len(wire[c]) :
            /\ wire[c][i].issued = NoJwt => Authorization(wire[c][i].req.headers) = {}
            /\ wire[c][i].fresh =>
                   Authorization(wire[c][i].req.headers) = Bearer(wire[c][i].issued)

C8_Witness ==
    /\ op[1] = "request"
    /\ Len(wire[1]) = 4
    /\ wire[1][1].issued = NoJwt
    /\ Authorization(wire[1][1].req.headers) = {}
    /\ wire[1][4].fresh
    /\ wire[1][4].issued = "tok-1"
    /\ <<"Authorization", "Bearer tok-1">> \in wire[1][4].req.headers

\* C9: once a login() has succeeded the token is not empty, and every
\* transport call carries, as its only Authorization header, Bearer with
\* the token of the most recent login() that succeeded.
C9_TokenInvariant ==
    /\ issued # NoJwt => token # ""
    /\ \A c \in Callers :
           \A i \in 1..Len(wire[c]) :
               wire[c][i].issued # NoJwt =>
                   Authorization(wire[c][i].req.headers) = Bearer(wire[c][i].issued)

\* C10: the resend of a request is the first send again (method, URL,
\* query parameters, body, timeout) and carries, as its only Authorization
\* header, Bearer with the body of the /jwt response of the login() made in
\* between, whatever the first send carried; if the session logged in at
\* construction and this is its first operation, login() has by then been
\* invoked twice on the session.
C10_ResendRefreshed ==
    \A c \in Callers :
        ( /\ op[c] = "request"
          /\ Len(FuncCalls(c)) = 2 )
        => /\ FuncCalls(c)[2].req.method = FuncCalls(c)[1].req.method
           /\ FuncCalls(c)[2].req.url = FuncCalls(c)[1].req.url
           /\ FuncCalls(c)[2].req.params = FuncCalls(c)[1].req.params
           /\ FuncCalls(c)[2].req.body = FuncCalls(c)[1].req.body
           /\ FuncCalls(c)[2].req.timeout = FuncCalls(c)[1].req.timeout
           /\ Len(JwtGets(c)) = 1
           /\ Authorization(FuncCalls(c)[2].req.headers) = Bearer(JwtGets(c)[1].resp.text)
           /\ (nops = 1 /\ FuncCalls(c)[1].issued # NoJwt) => logins = 2

C10_Witness ==
    /\ op[1] = "request"
    /\ pc[1] = "done"
    /\ args[1] = get_clusters
    /\ nops = 1
    /\ logins = 2
    /\ Len(FuncCalls(1)) = 2
    /\ FuncCalls(1)[1].resp.status_code = 403
    /\ Authorization(FuncCalls(1)[1].req.headers) = Bearer("tok-1")
    /\ Authorization(FuncCalls(1)[2].req.headers) = Bearer("tok-2")
    /\ FuncCalls(1)[2].resp.status_code = 200

C12_TransportFaultPropagates ==
    \A c \in Callers :
        op[c] = "request" =>
            \A i \in 1..Len(wire[c]) :
                ( /\ ~IsLoginCall(wire[c][i])
                  /\ wire[c][i].resp = Fault )
                => /\ i = Len(wire[c])
                   /\ pc[c] = "failed"
                   /\ result[c].ret = NoResponse
                   /\ result[c].exc = TransportError
                   /\ result[c].exc.type \notin {"HTTPError", "AuthError"}
                   /\ nlogin[c] = IF i = 1 THEN 0 ELSE 1
                   /\ Len(LoginPosts(c)) = nlogin[c]
                   /\ Len(FuncCalls(c)) = IF i = 1 THEN 1 ELSE 2

C12_Witness ==
    /\ op[1] = "request"
    /\ pc[1] = "failed"
    /\ Len(wire[1]) = 1
    /\ wire[1][1].resp = Fault
    /\ result[1].exc.type = "ConnectionError"
    /\ nlogin[1] = 0

\* C13: update_password(p) replaces the stored password and nothing else:
\* the step makes no transport call and no login() (the callers' transport
\* logs, positions and login counts stay as they were) and token and the
\* session's headers, Authorization among them, are exactly as before.
C13_UpdatePasswordIsolated ==
    [][ (session = "ready" /\ password' # password)
        => /\ token' = token
           /\ headers' = headers
           /\ Authorization(headers') = Authorization(headers)
           /\ wire' = wire
           /\ pc' = pc
           /\ logins' = logins
           /\ nlogin' = nlogin
           /\ issued' = issued
           /\ fresh' = fresh
           /\ session' = session ]_vars

\* update_password("pw-2") has acted on a session that holds a token.
C13_Witness ==
    /\ session = "ready"
    /\ password = "pw-2"
    /\ token = "tok-1"
    /\ Authorization(headers) = Bearer("tok-1")
    /\ logins = 1
    /\ pc[1] = "idle"

\* The operation of caller c has, so far, completed a login(): a /login
\* and a /jwt that both passed the check.
LoginSucceeded(c) ==
    \E i \in 1..Len(wire[c]) :
        /\ i > 1
        /\ wire[c][i].req.url = urljoin(url, "jwt")
        /\ raised(wire[c][i].resp) = NoError
        /\ wire[c][i - 1].req.url = urljoin(url, "login")
        /\ raised(wire[c][i - 1].resp) = NoError

\* A step in which caller c completes a login(): its GET of /jwt, sent
\* right after its POST to /login passed the check, passes the check too.
LoginCompletes(c) ==
    /\ pc[c] = "login_jwt"
    /\ pc'[c] \in {"func2", "done"}
    /\ Len(wire[c]) >= 1
    /\ Last(wire[c]).req.url = urljoin(url, "login")
    /\ raised(Last(wire[c]).resp) = NoError
    /\ Len(wire'[c]) = Len(wire[c]) + 1
    /\ Last(wire'[c]).req.url = urljoin(url, "jwt")
    /\ raised(Last(wire'[c]).resp) = NoError
    /\ token' = Last(wire'[c]).resp.text
    /\ Authorization(headers') = Bearer(token')

\* C14: token and the session's headers change only in the step that
\* completes a login() whose /login and /jwt both succeeded, and then to
\* the body of that /jwt.  Hence an operation in which no login() has
\* succeeded -- a request answered at once, a request that failed,
\* update_password, a login() that failed at /login or at /jwt -- has
\* token and the headers at the values it was called with.
C14_TokenFrameStep ==
    [][ (token' # token \/ headers' # headers)
        => \E c \in Callers : LoginCompletes(c) ]_vars

C14_TokenFrameOp ==
    \A c \in Callers :
        (op[c] \in {"login", "request"} /\ ~LoginSucceeded(c))
        => /\ token = entry[c].token
           /\ headers = entry[c].headers

C14_TokenOnlyByLogin == []C14_TokenFrameOp /\ C14_TokenFrameStep

\* A login() of a session that holds a token has failed at /jwt, after
\* its /login succeeded.
C14_Witness ==
    /\ op[1] = "login"
    /\ pc[1] = "failed"
    /\ Len(wire[1]) = 2
    /\ raised(wire[1][1].resp) = NoError
    /\ wire[1][2].req.url = urljoin(url, "jwt")
    /\ wire[1][2].resp.status_code = 401
    /\ entry[1].token = "tok-1"
    /\ token = "tok-1"
    /\ Authorization(headers) = Bearer("tok-1")

\* __init__ was called with login=True.
AutoLogin(c) == <<"login", "True">> \in args[c].params

\* C15: __init__ with login=True makes exactly one login() and does not
\* return before it ended: the session is ready once that login()
\* succeeded, and when it failed __init__ has raised the login's error.
\* __init__ with login=False makes no transport call and no login(), and
\* the session is ready with an empty token and no Authorization header.
C15_Construction ==
    \A c \in Callers :
        op[c] = "init" =>
            IF AutoLogin(c)
              THEN /\ logins = 1
                   /\ nlogin[c] = 1
                   /\ Len(FuncCalls(c)) = 0
                   /\ Len(LoginPosts(c)) <= 1
                   /\ Len(JwtGets(c)) <= 1
                   /\ ~Ended(c) => session = "new"
                   /\ pc[c] = "done" =>
                          /\ session = "ready"
                          /\ Len(wire[c]) = 2
                          /\ LoginSucceeded(c)
                          /\ token = wire[c][2].resp.text
                          /\ result[c] = NoResult
                   /\ pc[c] = "failed" =>
                          /\ session = "failed"
                          /\ Len(wire[c]) >= 1
                          /\ ~LoginSucceeded(c)
                          /\ result[c].exc # NoError
                          /\ result[c].exc = raised(Last(wire[c]).resp)
                          /\ token = ""
              ELSE /\ pc[c] = "done"
                   /\ session = "ready"
                   /\ wire[c] = <<>>
                   /\ logins = 0
                   /\ nlogin[c] = 0
                   /\ token = ""
                   /\ headers = {}
                   /\ result[c] = NoResult

\* __init__ with login=True has raised the AuthError of its login().
C15_Witness ==
    /\ op[1] = "init"
    /\ AutoLogin(1)
    /\ pc[1] = "failed"
    /\ session = "failed"
    /\ Len(wire[1]) = 1
    /\ wire[1][1].resp.status_code = 403
    /\ result[1].exc.type = "AuthError"
    /\ logins = 1

\* The password fields of a request's form.
PasswordSent(rq) == {f[2] : f \in {g \in rq.body.fields : g[1] = "password"}}

\* C16: every POST to /login, of a login() called directly, from __init__
\* or from wrapper(), carries the password stored at the time it is sent:
\* the one __init__ was given or the one the latest update_password set.
\* So the re-login of a request made after update_password(p) sends p.
C16_LoginSendsStoredPassword ==
    [][ \A c \in Callers :
          ( /\ Len(wire'[c]) = Len(wire[c]) + 1
            /\ Last(wire'[c]).req.url = urljoin(url, "login") )
          => /\ Last(wire'[c]).req.method = "POST"
             /\ PasswordSent(Last(wire'[c]).req) = {password}
             /\ password' = password ]_vars

\* The token in use was obtained by __init__ with "pw-1"; update_password
\* set "pw-2"; a request met AuthError and its re-login sent "pw-2".
C16_Witness ==
    /\ op[1] = "request"
    /\ entry[1].token = "tok-1"
    /\ logins = 2
    /\ nops = 1
    /\ password = "pw-2"
    /\ Len(wire[1]) >= 2
    /\ IsAuthExpired(wire[1][1].resp)
    /\ wire[1][2].req.url = urljoin(url, "login")
    /\ PasswordSent(wire[1][2].req) = {"pw-2"}

\* The DELETE transport calls of the helper call in progress.
DeleteCalls(c) == SelectSeq(wire[c], LAMBDA e : e.req.method = "DELETE")

\* The resource a facade delete is called on.
ResourceOf(k) ==
    urljoin(url, IF k = "delete_repair" THEN "repair_run/r2" ELSE "repair_schedule/s2")

\* The finished __get of a facade delete ended Ok, after at most one
\* login() and two sends: its last transport call is a GET of the
\* resource that passed the check.
GetEndedOk(c) ==
    LET g == facade[c].got
    IN  /\ Len(g) >= 1
        /\ Last(g).req.method = "GET"
        /\ Last(g).req.url = ResourceOf(facade[c].name)
        /\ Last(g).resp # Fault
        /\ raised(Last(g).resp) = NoError
        /\ \A i \in 1..Len(g) : IsLoginCall(g[i]) \/ g[i].req = [Last(g).req EXCEPT !.headers = g[i].req.headers]
        /\ Len(SelectSeq(g, LAMBDA e : ~IsLoginCall(e))) <= 2
        /\ Len(SelectSeq(g, LAMBDA e : e.req.url = urljoin(url, "login"))) <= 1

C17_DeleteAfterGet ==
    \A c \in Callers :
        facade[c].name \in Deletes =>
            /\ (facade[c].stage = "delete" \/ Len(DeleteCalls(c)) > 0) =>
                   /\ facade[c].stage = "delete"
                   /\ GetEndedOk(c)
                   /\ \A i \in 1..Len(wire[c]) :
                          \/ IsLoginCall(wire[c][i])
                          \/ /\ wire[c][i].req.method = "DELETE"
                             /\ wire[c][i].req.url = ResourceOf(facade[c].name)
                             /\ wire[c][i].req.params =
                                    {<<"owner", o>> : o \in Owners(json(Last(facade[c].got).resp.text))}
                             /\ wire[c][i].req.params # {}
            /\ facade[c].stage = "get" =>
                   /\ Len(DeleteCalls(c)) = 0
                   /\ facade[c].got = <<>>
                   /\ pc[c] = "failed" => result[c].exc # NoError

\* Once the GET phase has failed, the operation sends nothing more.
C17_FailedGetStops ==
    [][ \A c \in Callers :
          (facade[c].stage = "get" /\ pc[c] = "failed")
          => /\ wire'[c] \in {wire[c], <<>>}
             /\ facade'[c] = NoFacade ]_vars

\* C17: delete_repair(id) and delete_schedule(id) send a DELETE only
\* after their GET of the same resource ended Ok (after at most one
\* reauthentication of its own), and with the owner that GET returned; if
\* the GET ends Failed the operation has raised its error, and no DELETE
\* is sent then or later.
C17_TwoStepDelete == []C17_DeleteAfterGet /\ C17_FailedGetStops

\* A delete_repair whose GET needed a reauthentication and then ended Ok
\* has sent its DELETE, with the owner the GET named, and is done.
C17_Witness ==
    /\ facade[1].name = "delete_repair"
    /\ facade[1].stage = "delete"
    /\ Len(facade[1].got) = 4
    /\ IsAuthExpired(facade[1].got[1].resp)
    /\ json(facade[1].got[4].resp.text).fields = {<<"owner", "dev">>}
    /\ pc[1] = "done"
    /\ Len(DeleteCalls(1)) = 1
    /\ wire[1][1].req.params = {<<"owner", "dev">>}
    /\ wire[1][1].resp.status_code = 200

\* A delete_schedule whose GET ended Failed: no DELETE was sent.
C17_WitnessFailed ==
    /\ facade[1].name = "delete_schedule"
    /\ facade[1].stage = "get"
    /\ pc[1] = "failed"
    /\ result[1].exc.type = "HTTPError"
    /\ Len(DeleteCalls(1)) = 0

\* Each request call in progress has invoked login() at most once and
\* sent its own request at most twice.
C18_Bounded ==
    \A c \in Callers :
        op[c] = "request" =>
            /\ nlogin[c] <= 1
            /\ Len(LoginPosts(c)) <= 1
            /\ Len(JwtGets(c)) <= 1
            /\ Len(FuncCalls(c)) <= 2
            /\ Len(FuncCalls(c)) = 2 => nlogin[c] = 1
            /\ \A i \in 1..Len(wire[c]) :
                   IsLoginCall(wire[c][i]) \/ wire[c][i].req.url = urljoin(url, args[c].query)

\* A request call that has not ended is about to make one of its at most
\* four transport calls, and that call can return or raise.
C18_Progress ==
    \A c \in Callers :
        (op[c] = "request" /\ ~Ended(c)) =>
            /\ pc[c] \in {"func1", "login_post", "login_jwt", "func2"}
            /\ Len(wire[c]) <= 3
            /\ ENABLED TransportFew(c)

\* A step leaves a request call in progress untouched or advances it by
\* exactly one transport call.
C18_Variant ==
    [][ \A c \in Callers :
          (op[c] = "request" /\ ~Ended(c)) =>
              \/ /\ pc'[c] = pc[c]
                 /\ wire'[c] = wire[c]
                 /\ nlogin'[c] = nlogin[c]
                 /\ args'[c] = args[c]
              \/ /\ pc'[c] # pc[c]
                 /\ Len(wire'[c]) = Len(wire[c]) + 1 ]_vars

\* C18: when the request calls of two callers of one session interleave
\* at their transport calls, each call invokes login() at most once,
\* sends its own request at most twice, and ends Done or Failed, whatever
\* the other call's login() does to the shared token and header.
\* Termination is stated so that a finite run refutes it: a call that has
\* not ended is at a transport call that can return or raise
\* (C18_Progress), and every step either is another caller's and leaves
\* this call where it is, or is this call's and adds one transport call
\* to the at most four it makes (C18_Variant).
C18_InterleavedBound == []C18_Bounded /\ []C18_Progress /\ C18_Variant

\* Both callers are in a request call and both have logged in; caller 1
\* obtained "tok-1", but its resend went out with "tok-2", which caller
\* 2's login() installed in between.
C18_Witness ==
    /\ op[1] = "request"
    /\ op[2] = "request"
    /\ nlogin[1] = 1
    /\ nlogin[2] = 1
    /\ Ended(1)
    /\ Len(wire[1]) = 4
    /\ wire[1][3].resp.text = "tok-1"
    /\ wire[1][4].issued = "tok-2"
    /\ Authorization(wire[1][4].req.headers) = Bearer("tok-2")

====
